---- MODULE Spec2Model ----
(***************************************************************************)
(* Model of election.py: a Streamlit dashboard over the Andhra Pradesh     *)
(* 2024 results table.  Streamlit executes the script top to bottom once   *)
(* when the page opens and once more after every widget change; an         *)
(* exception that escapes the script ends that run where it was raised.    *)
(* One action of the model is one such run.                                *)
(*                                                                         *)
(* Numbers: Total Votes are naturals.  A float that is displayed through   *)
(* int() is modelled by its truncation, a mean that is kept as a float by  *)
(* the exact rational, a percentage rounded to 2 decimals by its number of *)
(* hundredths, NaN by a value of its own.                                  *)
(***************************************************************************)
EXTENDS Integers, Sequences, FiniteSets, TLC

\* ------------------------------------------------------------- bounds
MaxRows == 2

\* The values the columns of the CSV are drawn from: two constituencies; two
\* of the four parties of PARTY_COLORS and a party that is not one of them;
\* vote counts with a zero, with a sum above 999 (comma grouping) and with
\* shares that fall halfway between two hundredths (1 of 4000 is 0.025 %).
Constituencies == {"Kuppam", "Pithapuram"}
DataParties == {"Janasena Party", "Telugu Desam", "Independent"}
VoteCounts == {0, 1, 3999}

\* ------------------------------------------------------- the program
VARIABLES
    data,                   \* the script's global `data` (a sequence of rows)
    cache,                  \* what st.cache_data holds for load_data()
    tie_up,                 \* how a float lands on an exact decimal tie
    selected_party,         \* widget state, key 'party_select'
    selected_constituency,  \* widget state, key 'constituency_select'
    party_data,             \* the script's globals after the last run
    const_data,
    party_totals,
    rendered,               \* the elements on the page
    shown,                  \* what each metric / table element displays
    exception,              \* the exception that ended the last run
    pc                      \* "loaded" before the first run, then "ran"

vars == <<data, cache, tie_up, selected_party, selected_constituency,
          party_data, const_data, party_totals, rendered, shown, exception, pc>>

NoException == "none"
ValueError == "ValueError"
None == "None"
NaN == [nan |-> TRUE, hundredths |-> 0]

\* list(PARTY_COLORS.keys()): the keys in insertion order.
PARTY_COLORS ==
    << "Janasena Party", "Telugu Desam",
       "Yuvajana Sramika Rythu Congress Party", "Bharatiya Janata Party" >>

\* Python's order on the strings of the model (sorted(), groupby's sorted keys).
Alphabetical ==
    << "Bharatiya Janata Party", "Independent", "Janasena Party", "Kuppam",
       "PartyA", "PartyB", "Pithapuram", "Telugu Desam",
       "Yuvajana Sramika Rythu Congress Party" >>

Range(s) == { s[i] : i \in DOMAIN s }

\* sorted(xs) for a collection of distinct strings.
Sorted(S) == SelectSeq(Alphabetical, LAMBDA x : x \in S)

\* pd.read_csv: the rows in file order under a RangeIndex 0, 1, 2, ...
ReadCsv(lines) ==
    [ i \in DOMAIN lines |->
        [ idx |-> i - 1,
          Constituency |-> lines[i].Constituency,
          Candidate |-> lines[i].Candidate,
          Party |-> lines[i].Party,
          TotalVotes |-> lines[i].TotalVotes ] ]

\* ----------------------------------------------------- pandas helpers

\* A filter that keeps one row per party (drop_duplicates), not every row.
FilterByParty_FirstMatch(rows, p) ==
    LET all == SelectSeq(rows, LAMBDA r : r.Party = p)
    IN IF all = <<>> THEN <<>> ELSE <<all[1]>>

\* df[df['Party'] == p].copy(): the rows of the mask, in order, labels kept.
FilterByParty(rows, p) == SelectSeq(rows, LAMBDA r : r.Party = p)

\* df[df['Constituency'] == c].copy()
FilterByConstituency(rows, c) == SelectSeq(rows, LAMBDA r : r.Constituency = c)

\* Series.unique(): the distinct values in order of first appearance.
RECURSIVE Unique(_)
Unique(xs) ==
    IF xs = <<>> THEN <<>>
    ELSE LET n == Len(xs)
             init == Unique(SubSeq(xs, 1, n - 1))
         IN IF xs[n] \in Range(init) THEN init ELSE Append(init, xs[n])

Column(rows, col) == [ i \in DOMAIN rows |-> rows[i][col] ]

\* The sum of the distinct values (.unique().sum()), not of every row's.
RECURSIVE SeriesSum_OfUnique(_)
SeriesSum_OfUnique(xs) ==
    IF xs = <<>> THEN 0
    ELSE LET rest == Tail(xs)
         IN IF xs[1] \in { rest[i] : i \in DOMAIN rest }
            THEN SeriesSum_OfUnique(rest)
            ELSE xs[1] + SeriesSum_OfUnique(rest)

\* Series.sum(): 0 on an empty series.
RECURSIVE SeriesSum(_)
SeriesSum(xs) ==
    IF xs = <<>> THEN 0 ELSE xs[1] + SeriesSum(Tail(xs))

\* Series.max() of a non-empty series.
RECURSIVE SeriesMax(_)
SeriesMax(xs) ==
    IF Len(xs) = 1 THEN xs[1]
    ELSE LET m == SeriesMax(Tail(xs)) IN IF xs[1] >= m THEN xs[1] ELSE m

\* The label of the last row holding the maximum, not of the first.
RECURSIVE IdxMax_LastOccurrence(_)
IdxMax_LastOccurrence(rows) ==
    IF Len(rows) = 1 THEN rows[1].idx
    ELSE LET n == Len(rows)
             init == SubSeq(rows, 1, n - 1)
             m == rows[n].TotalVotes
         IN IF \A i \in DOMAIN init : init[i].TotalVotes <= m
            THEN rows[n].idx ELSE IdxMax_LastOccurrence(init)

\* Series.idxmax() of a non-empty frame: the label of the first row holding
\* the maximum.
RECURSIVE IdxMax(_)
IdxMax(rows) ==
    IF Len(rows) = 1 THEN rows[1].idx
    ELSE LET rest == Tail(rows)
             m == SeriesMax(Column(rest, "TotalVotes"))
         IN IF rows[1].TotalVotes >= m THEN rows[1].idx ELSE IdxMax(rest)

\* df.loc[label, 'Party']
LocParty(rows, label) ==
    LET i == CHOOSE k \in DOMAIN rows : rows[k].idx = label IN rows[i].Party

\* f"{n:,}": the decimal digits of n in groups of three, most significant
\* first ("1,234,567" is <<1, 234, 567>>).
RECURSIVE Commas(_)
Commas(n) ==
    IF n < 1000 THEN <<n>> ELSE Append(Commas(n \div 1000), n % 1000)

RECURSIVE Gcd(_, _)
Gcd(a, b) == IF b = 0 THEN a ELSE Gcd(b, a % b)

\* The float a / b (b > 0) as the rational it stands for.
Ratio(a, b) ==
    LET g == Gcd(a, b) IN [num |-> a \div g, den |-> b \div g]

\* The share without its "* 100": a fraction of 1, not a percentage.
Round2Percent_Fraction(x, total, up) ==
    IF total = 0 THEN [nan |-> TRUE, hundredths |-> 0]
    ELSE LET q == (x * 100) \div total
             r == (x * 100) % total
         IN [ nan |-> FALSE,
              hundredths |-> IF 2 * r > total \/ (2 * r = total /\ up)
                             THEN q + 1 ELSE q ]

\* (x / total * 100).round(2), in hundredths: 0 / 0 is NaN; numpy rounds the
\* float to the nearest hundredth, and a value halfway between two
\* hundredths goes where its float representation falls.
Round2Percent(x, total, up) ==
    IF total = 0 THEN NaN
    ELSE LET q == (x * 10000) \div total
             r == (x * 10000) % total
         IN [ nan |-> FALSE,
              hundredths |-> IF 2 * r > total \/ (2 * r = total /\ up)
                             THEN q + 1 ELSE q ]

\* sort_values(column, ascending=False) of a short table, a key per row:
\* by insertion, so rows of equal key keep their order; NaN goes last.
Before(a, b) == ~a.nan /\ (b.nan \/ a.val > b.val)

RECURSIVE Insert(_, _)
Insert(sorted, item) ==
    IF sorted = <<>> THEN <<item>>
    ELSE LET n == Len(sorted)
         IN IF Before(item.key, sorted[n].key)
            THEN Append(Insert(SubSeq(sorted, 1, n - 1), item), sorted[n])
            ELSE Append(sorted, item)

RECURSIVE InsertionSort(_)
InsertionSort(items) ==
    IF items = <<>> THEN <<>>
    ELSE LET n == Len(items)
         IN Insert(InsertionSort(SubSeq(items, 1, n - 1)), items[n])

SortValuesDescending(rows, keys) ==
    LET sorted == InsertionSort([ k \in DOMAIN rows |->
                                    [key |-> keys[k], row |-> rows[k]] ])
    IN [ k \in DOMAIN sorted |-> sorted[k].row ]

\* DataFrame.to_csv(index=False): the rows without their labels.
ToCsv(rows) ==
    [ k \in DOMAIN rows |->
        [ Constituency |-> rows[k].Constituency, Candidate |-> rows[k].Candidate,
          Party |-> rows[k].Party, TotalVotes |-> rows[k].TotalVotes ] ]

\* ------------------------------------------------------ one script run

\* The script's names and the page while a run executes.
NewRun(d) ==
    [ data |-> d, party_data |-> <<>>, const_data |-> <<>>,
      party_totals |-> <<>>, rendered |-> {}, shown |-> <<>>,
      exception |-> NoException ]

\* A statement after an uncaught exception is not executed.
Running(e) == e.exception = NoException

\* st.metric / st.dataframe: an element with the value it displays.
Metric(e, name, value) ==
    IF Running(e)
    THEN [e EXCEPT !.rendered = @ \cup {name}, !.shown = (name :> value) @@ @]
    ELSE e

\* st.markdown / st.plotly_chart / st.download_button: an element.
Element(e, name) ==
    IF Running(e) THEN [e EXCEPT !.rendered = @ \cup {name}] ELSE e

Raise(e, exc) ==
    IF Running(e) THEN [e EXCEPT !.exception = exc] ELSE e

\* The options of the constituency selectbox.
ConstituencyOptions(d) == Sorted(Range(Column(d, "Constituency")))

\* st.selectbox: the widget's value if it is still an option, else the first
\* option, None when there is no option.
Selectbox(options, value) ==
    IF value \in Range(options) THEN value
    ELSE IF options = <<>> THEN None ELSE options[1]

\* with st.sidebar: ...
Sidebar(e) == Element(Element(e, "header"), "sidebar")

\* The filter assigned to `data` itself, not to a new name.
Tab1Filter_InPlace(e, sp) ==
    IF e.exception = "none"
    THEN [e EXCEPT !.party_data = SelectSeq(e.data, LAMBDA r : r.Party = sp),
                   !.data = SelectSeq(e.data, LAMBDA r : r.Party = sp)]
    ELSE e

\* with tab1: ...
Tab1Filter(e, sp) ==
    IF Running(e) THEN [e EXCEPT !.party_data = FilterByParty(e.data, sp)] ELSE e

Tab1Metrics(e) ==
    LET votes == Column(e.party_data, "TotalVotes")
        m1 == Metric(e, "t1.constituencies",
                     Len(Unique(Column(e.party_data, "Constituency"))))
        m2 == Metric(m1, "t1.total_votes", Commas(SeriesSum(votes)))
        \* int(nan): ValueError
        m3 == IF votes = <<>> THEN Raise(m2, ValueError)
              ELSE Metric(m2, "t1.average_votes",
                          Commas(SeriesSum(votes) \div Len(votes)))
        m4 == IF votes = <<>> THEN Raise(m3, ValueError)
              ELSE Metric(m3, "t1.highest_votes", Commas(SeriesMax(votes)))
    IN m4

Tab1(e, sp) ==
    Element(Element(Tab1Metrics(Tab1Filter(e, sp)), "t1.bar"), "t1.box")

\* with tab2: ...
Tab2Filter(e, sc) ==
    IF Running(e)
    THEN [e EXCEPT !.const_data = FilterByConstituency(e.data, sc)] ELSE e

Tab2Metrics(e) ==
    LET votes == Column(e.const_data, "TotalVotes")
        m1 == Metric(e, "t2.candidates", Len(e.const_data))
        m2 == Metric(m1, "t2.total_votes", Commas(SeriesSum(votes)))
        \* idxmax of an empty series: ValueError
        m3 == IF votes = <<>> THEN Raise(m2, ValueError)
              ELSE Metric(m2, "t2.leading_party",
                          LocParty(e.const_data, IdxMax(e.const_data)))
    IN m3

\* const_data[['Candidate', 'Party', 'Total Votes']].sort_values(...)
StyledData(rows) ==
    SortValuesDescending(
        [ k \in DOMAIN rows |->
            [ Candidate |-> rows[k].Candidate, Party |-> rows[k].Party,
              TotalVotes |-> rows[k].TotalVotes ] ],
        [ k \in DOMAIN rows |-> [nan |-> FALSE, val |-> rows[k].TotalVotes] ])

Tab2(e, sc) ==
    LET m == Element(Tab2Metrics(Element(Tab2Filter(e, sc), "t2.subheader")),
                     "t2.pie")
    IN Metric(Metric(m, "t2.table", StyledData(m.const_data)),
              "t2.download", ToCsv(m.const_data))

\* The aggregation with nunique of the constituencies as the count, the way
\* the party view counts.
AggregateByParty_CountsConstituencies(rows, up) ==
    LET keys == Sorted(Range(Column(rows, "Party")))
        grand == SeriesSum(Column(rows, "TotalVotes"))
        group(p) == Column(FilterByParty(rows, p), "TotalVotes")
        nunique(p) == Len(Unique(Column(FilterByParty(rows, p), "Constituency")))
    IN [ k \in DOMAIN keys |->
           [ Party |-> keys[k],
             TotalVotes |-> SeriesSum(group(keys[k])),
             AverageVotes |-> Ratio(SeriesSum(group(keys[k])), Len(group(keys[k]))),
             Constituencies |-> nunique(keys[k]),
             VoteShare |-> Round2Percent(SeriesSum(group(keys[k])), grand, up) ] ]

\* data.groupby('Party')['Total Votes'].agg(['sum', 'mean', 'count']) with
\* the Vote Share (%) column: one row per party, the parties in sorted order.
AggregateByParty(rows, up) ==
    LET keys == Sorted(Range(Column(rows, "Party")))
        grand == SeriesSum(Column(rows, "TotalVotes"))
        group(p) == Column(FilterByParty(rows, p), "TotalVotes")
    IN [ k \in DOMAIN keys |->
           [ Party |-> keys[k],
             TotalVotes |-> SeriesSum(group(keys[k])),
             AverageVotes |-> Ratio(SeriesSum(group(keys[k])), Len(group(keys[k]))),
             Constituencies |-> Len(group(keys[k])),
             VoteShare |-> Round2Percent(SeriesSum(group(keys[k])), grand, up) ] ]

\* with tab3: ...
Tab3Totals(e, up) ==
    IF Running(e)
    THEN [e EXCEPT !.party_totals = AggregateByParty(e.data, up)] ELSE e

Tab3Metrics(e) ==
    LET m1 == Metric(e, "t3.constituencies",
                     Len(Unique(Column(e.data, "Constituency"))))
        m2 == Metric(m1, "t3.total_votes",
                     Commas(SeriesSum(Column(e.data, "TotalVotes"))))
        m3 == Metric(m2, "t3.candidates",
                     Len(Unique(Column(e.data, "Candidate"))))
    IN m3

\* party_totals[['Party', 'Vote Share (%)', 'Constituencies']]
SummaryColumns(rows) ==
    [ k \in DOMAIN rows |->
        [ Party |-> rows[k].Party, VoteShare |-> rows[k].VoteShare,
          Constituencies |-> rows[k].Constituencies ] ]

Tab3(e, up) ==
    LET t == Element(Tab3Metrics(Tab3Totals(e, up)), "t3.bar")
        summary == SummaryColumns(t.party_totals)
    IN Metric(t, "t3.summary",
              SortValuesDescending(summary,
                  [ k \in DOMAIN summary |->
                      [ nan |-> summary[k].VoteShare.nan,
                        val |-> summary[k].VoteShare.hundredths ] ]))

Footer(e) == Element(e, "footer")

\* The whole script, lines 71 to 278, under the widget values sp and sc.
Script(d, sp, sc, up) ==
    Footer(Tab3(Tab2(Tab1(Sidebar(NewRun(d)), sp), sc), up))

\* ------------------------------------------------------------ actions

\* A row of the CSV file.  Every row names another candidate.
CsvLine(i, c, p, v) ==
    [Constituency |-> c, Candidate |-> i, Party |-> p, TotalVotes |-> v]

CsvFiles ==
    UNION { { [ i \in 1..n |-> CsvLine(i, f[i][1], f[i][2], f[i][3]) ] :
                f \in [1..n -> Constituencies \X DataParties \X VoteCounts] } :
            n \in 0..MaxRows }

Init ==
    /\ \E file \in CsvFiles : cache = ReadCsv(file)
    /\ data = cache
    /\ tie_up \in BOOLEAN
    /\ selected_party = None
    /\ selected_constituency = None
    /\ party_data = <<>>
    /\ const_data = <<>>
    /\ party_totals = <<>>
    /\ rendered = {}
    /\ shown = <<>>
    /\ exception = NoException
    /\ pc = "loaded"

\* load_data(): st.cache_data hands every run a copy of what it holds.
LoadData == cache

\* One execution of the script with the widgets at sp and sc.
Run(sp, sc) ==
    \E e \in {Script(LoadData, sp, sc, tie_up)} :
       /\ selected_party' = sp
       /\ selected_constituency' = sc
       /\ data' = e.data
       /\ party_data' = e.party_data
       /\ const_data' = e.const_data
       /\ party_totals' = e.party_totals
       /\ rendered' = e.rendered
       /\ shown' = e.shown
       /\ exception' = e.exception
       /\ pc' = "ran"
       /\ UNCHANGED <<cache, tie_up>>

\* The page is opened: both selectboxes take their first option.
FirstRun ==
    /\ pc = "loaded"
    /\ Run(Selectbox(PARTY_COLORS, None),
           Selectbox(ConstituencyOptions(LoadData), None))

\* The user picks another party in the sidebar: the script runs again.
SelectParty(p) ==
    /\ pc = "ran"
    /\ "sidebar" \in rendered
    /\ p \in Range(PARTY_COLORS)
    /\ p # selected_party
    /\ Run(p, Selectbox(ConstituencyOptions(LoadData), selected_constituency))

\* The user picks another constituency in the sidebar.
SelectConstituency(c) ==
    /\ pc = "ran"
    /\ "sidebar" \in rendered
    /\ c \in Range(ConstituencyOptions(data))
    /\ c # selected_constituency
    /\ Run(Selectbox(PARTY_COLORS, selected_party), c)

Next ==
    \/ FirstRun
    \/ \E p \in Range(PARTY_COLORS) : SelectParty(p)
    \/ \E c \in Constituencies : SelectConstituency(c)

Spec == Init /\ [][Next]_vars

\* ------------------------------------------------- stating the claims

\* The rows of a table as the set of their positions, and sums over them.
RECURSIVE SumOver(_, _)
SumOver(S, rows) ==
    IF S = {} THEN 0
    ELSE LET k == CHOOSE x \in S : TRUE
         IN rows[k].TotalVotes + SumOver(S \ {k}, rows)

PartyRows(rows, p) == { k \in DOMAIN rows : rows[k].Party = p }
ConstituencyRows(rows, c) == { k \in DOMAIN rows : rows[k].Constituency = c }
GrandTotal(rows) == SumOver(DOMAIN rows, rows)

\* The number a comma-grouped display reads as.
RECURSIVE Reads(_)
Reads(groups) ==
    IF Len(groups) = 1 THEN groups[1]
    ELSE Reads(SubSeq(groups, 1, Len(groups) - 1)) * 1000 + groups[Len(groups)]

\* sub holds the rows of `rows` at the positions S, each once, and no other.
HoldsExactly(sub, rows, S) ==
    /\ Len(sub) = Cardinality(S)
    /\ \A k \in S : \E i \in DOMAIN sub : sub[i] = rows[k]
    /\ \A i \in DOMAIN sub : \E k \in S : sub[i] = rows[k]

Tab1Elements ==
    { "t1.constituencies", "t1.total_votes", "t1.average_votes",
      "t1.highest_votes", "t1.bar", "t1.box" }
Tab2Elements ==
    { "t2.subheader", "t2.candidates", "t2.total_votes", "t2.leading_party",
      "t2.pie", "t2.table", "t2.download" }
Tab3Elements ==
    { "t3.constituencies", "t3.total_votes", "t3.candidates", "t3.bar",
      "t3.summary" }

Tab2Reached == pc = "ran" /\ "t2.subheader" \in rendered
Tab3Reached == pc = "ran" /\ "t3.summary" \in rendered

\* C1: a statistic over an empty subset yields the result kind
\* EmptyAggregationInput: the run raises no exception for it, and no metric
\* of the empty subset displays a zero in its place.
C1_EmptyInputIsExplicit ==
    (pc = "ran" /\ data # <<>> /\ party_data = <<>>) =>
        /\ exception = NoException
        /\ "t1.constituencies" \in rendered => shown["t1.constituencies"] # 0
        /\ "t1.total_votes" \in rendered => shown["t1.total_votes"] # <<0>>

\* C2: whatever the sidebar offers, the subset of the selection is not empty:
\* no run of the script over a non-empty table computes an empty party or
\* constituency subset.
C2_SelectionSubsetNonEmpty ==
    (pc = "ran" /\ data # <<>>) =>
        /\ PartyRows(data, selected_party) # {}
        /\ party_data # <<>>
        /\ ConstituencyRows(data, selected_constituency) # {}

\* C3: a failed aggregation costs the page only the metrics that failed:
\* every other element of the three tabs is rendered, and the footer.
C3_FailureIsLocal ==
    (pc = "ran" /\ data # <<>>) =>
        /\ "footer" \in rendered
        /\ Tab1Elements \ {"t1.average_votes", "t1.highest_votes"} \subseteq rendered
        /\ Tab2Elements \ {"t2.leading_party"} \subseteq rendered
        /\ Tab3Elements \subseteq rendered

\* C4: the party subset of a run holds exactly the rows of the table whose
\* Party is the selected party, the constituency subset exactly the rows
\* whose Constituency is the selected constituency, and a party that matches
\* no row gives the empty subset, the run going on to the next statement.
C4_FiltersExact ==
    pc = "ran" =>
        /\ HoldsExactly(party_data, data, PartyRows(data, selected_party))
        /\ "t1.constituencies" \in rendered
        /\ Tab2Reached =>
             HoldsExactly(const_data, data,
                          ConstituencyRows(data, selected_constituency))

C4_Witness ==
    /\ Tab2Reached
    /\ party_data # <<>> /\ Len(party_data) < Len(data)
    /\ const_data # <<>> /\ Len(const_data) < Len(data)

\* C5 as claimed: for a non-empty subset both views display the sum of its
\* Total Votes and the number of its rows.
C5_CountIsRowCount ==
    /\ (pc = "ran" /\ party_data # <<>>) =>
         /\ Reads(shown["t1.total_votes"]) = SumOver(DOMAIN party_data, party_data)
         /\ shown["t1.constituencies"] = Len(party_data)
    /\ (Tab2Reached /\ const_data # <<>>) =>
         /\ Reads(shown["t2.total_votes"]) = SumOver(DOMAIN const_data, const_data)
         /\ shown["t2.candidates"] = Len(const_data)

\* C5 amended: both views display the sum of the subset's Total Votes; the
\* constituency view displays the number of rows, the party view the number
\* of distinct constituencies among the rows (the number of rows when no two
\* rows of the subset share a constituency).
C5_SumAndCount ==
    /\ (pc = "ran" /\ party_data # <<>>) =>
         /\ Reads(shown["t1.total_votes"]) = SumOver(DOMAIN party_data, party_data)
         /\ shown["t1.constituencies"] =
              Cardinality({ party_data[i].Constituency : i \in DOMAIN party_data })
         /\ (\A i, j \in DOMAIN party_data :
                party_data[i].Constituency = party_data[j].Constituency => i = j)
              => shown["t1.constituencies"] = Len(party_data)
    /\ (Tab2Reached /\ const_data # <<>>) =>
         /\ Reads(shown["t2.total_votes"]) = SumOver(DOMAIN const_data, const_data)
         /\ shown["t2.candidates"] = Len(const_data)

C5_Witness ==
    /\ Tab2Reached
    /\ Len(party_data) = 2
    /\ party_data[1].Constituency = party_data[2].Constituency
    /\ Len(shown["t1.total_votes"]) = 2

\* C6: the leading party displayed for a constituency is the party of the
\* first row of the subset that holds the subset's maximum Total Votes.
C6_LeadingParty ==
    (pc = "ran" /\ "t2.leading_party" \in rendered) =>
        \E i \in DOMAIN const_data :
            /\ shown["t2.leading_party"] = const_data[i].Party
            /\ \A j \in DOMAIN const_data :
                   const_data[j].TotalVotes <= const_data[i].TotalVotes
            /\ \A j \in 1..(i - 1) :
                   const_data[j].TotalVotes < const_data[i].TotalVotes

C6_Witness ==
    /\ pc = "ran" /\ "t2.leading_party" \in rendered
    /\ Len(const_data) = 2
    /\ const_data[1].TotalVotes = const_data[2].TotalVotes
    /\ const_data[1].Party # const_data[2].Party

\* The vote shares of the overall view, in hundredths of a percent.
ShareSum(totals) ==
    LET RECURSIVE Sum(_)
        Sum(k) == IF k = 0 THEN 0 ELSE totals[k].VoteShare.hundredths + Sum(k - 1)
    IN Sum(Len(totals))

WithinTolerance(totals) ==
    /\ \A k \in DOMAIN totals : ~totals[k].VoteShare.nan
    /\ 2 * (ShareSum(totals) - 10000) <= Len(totals)
    /\ 2 * (10000 - ShareSum(totals)) <= Len(totals)

\* C7 as claimed: over any non-empty table the vote shares sum to 100.00
\* within 0.005 per party.
C7_SharesSumTo100 ==
    (Tab3Reached /\ data # <<>>) => WithinTolerance(party_totals)

\* C7 amended: over any table whose Total Votes sum to more than zero the
\* vote shares sum to 100.00 within 0.005 per party.
C7_SharesSumTo100IfVotes ==
    (Tab3Reached /\ GrandTotal(data) > 0) => WithinTolerance(party_totals)

C7_Witness ==
    /\ Tab3Reached
    /\ GrandTotal(data) > 0
    /\ Len(party_totals) = 2
    /\ ShareSum(party_totals) # 10000

\* The scenario of the specification.
ScenarioRows ==
    ReadCsv(<< [Constituency |-> "Kuppam", Candidate |-> "X", Party |-> "PartyA", TotalVotes |-> 100],
               [Constituency |-> "Kuppam", Candidate |-> "Y", Party |-> "PartyB", TotalVotes |-> 150],
               [Constituency |-> "Pithapuram", Candidate |-> "Z", Party |-> "PartyA", TotalVotes |-> 50] >>)

ScenarioTotals ==
    << [ Party |-> "PartyA", TotalVotes |-> 150,
         AverageVotes |-> [num |-> 75, den |-> 1], Constituencies |-> 2,
         VoteShare |-> [nan |-> FALSE, hundredths |-> 5000] ],
       [ Party |-> "PartyB", TotalVotes |-> 150,
         AverageVotes |-> [num |-> 150, den |-> 1], Constituencies |-> 1,
         VoteShare |-> [nan |-> FALSE, hundredths |-> 5000] ] >>

\* C8: the overall view holds one row per party of the table, with the sum
\* and the number of that party's rows and their quotient as the mean; the
\* sums add up to the grand total and the counts to the number of rows; and
\* the scenario's table gives the scenario's rows.
C8_AggregateByParty ==
    /\ Tab3Reached =>
         /\ \A p \in { data[k].Party : k \in DOMAIN data } :
              \E k \in DOMAIN party_totals :
                 /\ party_totals[k].Party = p
                 /\ \A j \in DOMAIN party_totals :
                        party_totals[j].Party = p => j = k
                 /\ party_totals[k].TotalVotes = SumOver(PartyRows(data, p), data)
                 /\ party_totals[k].Constituencies = Cardinality(PartyRows(data, p))
                 /\ party_totals[k].AverageVotes.num * party_totals[k].Constituencies
                      = party_totals[k].TotalVotes * party_totals[k].AverageVotes.den
         /\ \A k \in DOMAIN party_totals : PartyRows(data, party_totals[k].Party) # {}
         /\ LET RECURSIVE Sums(_) RECURSIVE Counts(_)
                Sums(k) == IF k = 0 THEN 0 ELSE party_totals[k].TotalVotes + Sums(k - 1)
                Counts(k) == IF k = 0 THEN 0 ELSE party_totals[k].Constituencies + Counts(k - 1)
            IN /\ Sums(Len(party_totals)) = GrandTotal(data)
               /\ Counts(Len(party_totals)) = Len(data)
    /\ \A up \in BOOLEAN : AggregateByParty(ScenarioRows, up) = ScenarioTotals

C8_Witness ==
    /\ Tab3Reached
    /\ Len(party_totals) = 1
    /\ party_totals[1].Constituencies = 2
    /\ party_totals[1].AverageVotes = [num |-> 2000, den |-> 1]

\* C9: the table the script reads is the table that was loaded, after every
\* run: no filter, sort, aggregation or export of a run changes it.
C9_SourceNeverMutated == data = cache

C9_Witness ==
    /\ Tab3Reached
    /\ selected_party # PARTY_COLORS[1]
    /\ Len(data) = 2
    /\ Len(party_data) = 1
    /\ Len(const_data) = 1
    /\ Len(party_totals) = 2
    /\ shown["t2.table"] # <<>>

\* The overall view on the page.
OverallView ==
    [ elements |-> rendered \cap Tab3Elements,
      displays |-> [ m \in DOMAIN shown \cap Tab3Elements |-> shown[m] ] ]

\* C10: the views of a run depend on the table and the two selections only,
\* and the overall view not on the selections: the run after a selection
\* change shows the overall view the run before it showed.
C10_OverallViewSameForEverySelection ==
    [][(pc = "ran" /\ pc' = "ran") => OverallView' = OverallView]_vars
====
